---------------------------- MODULE Spec2Model ----------------------------
(***************************************************************************)
(* A model of transformer-circuits.pub.py: one run of main, which fetches  *)
(* one page, extracts article records from its anchors and prints an RSS   *)
(* 2.0 document.                                                           *)
(*                                                                         *)
(* Text is modelled character by character: a Python str is a sequence of  *)
(* one-character strings, so that urljoin, the regular expressions,        *)
(* str.strip, str.replace, html.escape, strptime and format_datetime are   *)
(* computed the way the code computes them.                                *)
(***************************************************************************)
EXTENDS Integers, Sequences, FiniteSets

(***************************************************************************)
(* Characters and str helpers.                                             *)
(***************************************************************************)

\* The characters str.strip() removes and the regex class \s matches.
Whitespace == {" ", "\n", "\t"}

\* The characters the regex class \d matches (ASCII inputs only).
Digit == {"0", "1", "2", "3", "4", "5", "6", "7", "8", "9"}

UpperCase ==
  {"A", "B", "C", "D", "E", "F", "G", "H", "I", "J", "K", "L", "M",
   "N", "O", "P", "Q", "R", "S", "T", "U", "V", "W", "X", "Y", "Z"}

LowerCase ==
  {"a", "b", "c", "d", "e", "f", "g", "h", "i", "j", "k", "l", "m",
   "n", "o", "p", "q", "r", "s", "t", "u", "v", "w", "x", "y", "z"}

\* int() of one decimal digit.
DigitVal(c) ==
  CASE c = "0" -> 0 [] c = "1" -> 1 [] c = "2" -> 2 [] c = "3" -> 3
    [] c = "4" -> 4 [] c = "5" -> 5 [] c = "6" -> 6 [] c = "7" -> 7
    [] c = "8" -> 8 [] c = "9" -> 9

\* str.lower() of one character: what re.IGNORECASE compares.
LowerChar(c) ==
  CASE c = "A" -> "a" [] c = "B" -> "b" [] c = "C" -> "c" [] c = "D" -> "d"
    [] c = "E" -> "e" [] c = "F" -> "f" [] c = "G" -> "g" [] c = "H" -> "h"
    [] c = "I" -> "i" [] c = "J" -> "j" [] c = "K" -> "k" [] c = "L" -> "l"
    [] c = "M" -> "m" [] c = "N" -> "n" [] c = "O" -> "o" [] c = "P" -> "p"
    [] c = "Q" -> "q" [] c = "R" -> "r" [] c = "S" -> "s" [] c = "T" -> "t"
    [] c = "U" -> "u" [] c = "V" -> "v" [] c = "W" -> "w" [] c = "X" -> "x"
    [] c = "Y" -> "y" [] c = "Z" -> "z" [] OTHER -> c

Lower(s) == [k \in 1..Len(s) |-> LowerChar(s[k])]

\* int() of a run of decimal digits.
RECURSIVE ToInt(_)
ToInt(s) ==
  IF s = <<>> THEN 0
  ELSE 10 * ToInt(SubSeq(s, 1, Len(s) - 1)) + DigitVal(s[Len(s)])

\* s[k:] , 1-based.
From(s, k) == SubSeq(s, k, Len(s))

\* Whether pat occurs in s at position k.
StartsAt(s, k, pat) ==
  /\ k >= 1
  /\ k + Len(pat) - 1 <= Len(s)
  /\ pat # <<>> => s[k] = pat[1]
  /\ SubSeq(s, k, k + Len(pat) - 1) = pat

\* str.find: the least position of pat in s, 0 when there is none.
Find(s, pat) ==
  LET hits == {k \in 1..Len(s) : StartsAt(s, k, pat)}
  IN  IF hits = {} THEN 0 ELSE CHOOSE k \in hits : \A j \in hits : k <= j

RECURSIVE LStrip(_)
LStrip(s) ==
  IF s # <<>> /\ Head(s) \in Whitespace THEN LStrip(Tail(s)) ELSE s

RECURSIVE RStrip(_)
RStrip(s) ==
  IF s # <<>> /\ s[Len(s)] \in Whitespace
  THEN RStrip(SubSeq(s, 1, Len(s) - 1))
  ELSE s

\* str.strip()
Strip(s) == RStrip(LStrip(s))

\* s.replace(old, new): every non-overlapping occurrence of old, left to
\* right (old is never empty where the code calls it).
RECURSIVE Replace(_, _, _)
Replace(s, old, new) ==
  IF old = <<>> \/ s = <<>> THEN s
  ELSE IF StartsAt(s, 1, old) THEN new \o Replace(From(s, Len(old) + 1), old, new)
  ELSE <<Head(s)>> \o Replace(Tail(s), old, new)

\* sep.join(parts)
RECURSIVE Join(_, _)
Join(parts, sep) ==
  IF parts = <<>> THEN <<>>
  ELSE IF Len(parts) = 1 THEN parts[1]
  ELSE parts[1] \o sep \o Join(Tail(parts), sep)

\* The concatenation of a sequence of strings.
Concat(parts) == Join(parts, <<>>)

\* Tag.get_text(" ", strip=True) over the text nodes of an element, in
\* document order: each is stripped, the empty ones are dropped and the rest
\* are joined by one space.
GetText(nodes) ==
  Join(SelectSeq([k \in 1..Len(nodes) |-> Strip(nodes[k])],
                 LAMBDA t : t # <<>>),
       <<" ">>)

(***************************************************************************)
(* urllib.parse.urljoin, for a base of the form scheme://netloc/path and   *)
(* references without dot segments.                                        *)
(***************************************************************************)

\* main's base_url.
\* "https://transformer-circuits.pub/"
base_url == <<"h","t","t","p","s",":","/","/","t","r","a","n","s","f","o","r",
              "m","e","r","-","c","i","r","c","u","i","t","s",".","p","u","b",
              "/">>

SchemeChars == UpperCase \cup LowerCase \cup Digit \cup {"+", "-", "."}

\* urlsplit's scheme: a letter-led run of scheme characters before the first
\* ":"; the position of that ":", 0 when the reference has no scheme.
SchemeEnd(url) ==
  LET c == Find(url, <<":">>)
  IN  IF /\ c > 1
         /\ url[1] \in UpperCase \cup LowerCase
         /\ \A k \in 1..(c - 1) : url[k] \in SchemeChars
      THEN c ELSE 0

\* scheme://netloc of an absolute URL: everything before the path.
Origin(url) ==
  LET a == SchemeEnd(url) + 3
      rest == From(url, a)
      p == Find(rest, <<"/">>)
  IN  IF p = 0 THEN url ELSE SubSeq(url, 1, a + p - 2)

\* The path of an absolute URL without query or fragment.
PathOf(url) == From(url, Len(Origin(url)) + 1)

\* The path up to and including its last "/".
RECURSIVE DirOf(_)
DirOf(path) ==
  IF path = <<>> \/ path[Len(path)] = "/" THEN path
  ELSE DirOf(SubSeq(path, 1, Len(path) - 1))

urljoin(base, url) ==
  IF url = <<>> THEN base
  ELSE IF SchemeEnd(url) > 0 THEN url
  ELSE IF StartsAt(url, 1, <<"/","/">>)
    THEN SubSeq(base, 1, SchemeEnd(base)) \o url
  ELSE IF url[1] = "/" THEN Origin(base) \o url
  ELSE IF url[1] \in {"?", "#"} THEN base \o url
  ELSE Origin(base) \o DirOf(PathOf(base)) \o url

(***************************************************************************)
(* datetime, datetime.strptime and email.utils.format_datetime.             *)
(***************************************************************************)

\* A naive datetime.
DateTime(y, m, d, hh, mm, ss) ==
  [year |-> y, month |-> m, day |-> d, hour |-> hh, minute |-> mm, second |-> ss]

IsLeap(y) == y % 4 = 0 /\ (y % 100 # 0 \/ y % 400 = 0)

DaysInMonth(y, m) ==
  IF m = 2 THEN (IF IsLeap(y) THEN 29 ELSE 28)
  ELSE IF m \in {4, 6, 9, 11} THEN 30 ELSE 31

\* date.toordinal(): the days from 0001-01-01, which is day 1.
RECURSIVE DaysBeforeMonth(_, _)
DaysBeforeMonth(y, m) ==
  IF m = 1 THEN 0 ELSE DaysBeforeMonth(y, m - 1) + DaysInMonth(y, m - 1)

ToOrdinal(y, m, d) ==
  LET p == y - 1
  IN  p * 365 + (p \div 4) - (p \div 100) + (p \div 400) + DaysBeforeMonth(y, m) + d

\* date.weekday(): Monday is 0.
Weekday(y, m, d) == (ToOrdinal(y, m, d) + 6) % 7

\* What the datetime constructor accepts (MINYEAR is 1); anything else is a
\* ValueError.
ValidDate(y, m, d) ==
  /\ y >= 1
  /\ m \in 1..12
  /\ d >= 1
  /\ d <= DaysInMonth(y, m)

DigitChar(n) ==
  CASE n = 0 -> "0" [] n = 1 -> "1" [] n = 2 -> "2" [] n = 3 -> "3"
    [] n = 4 -> "4" [] n = 5 -> "5" [] n = 6 -> "6" [] n = 7 -> "7"
    [] n = 8 -> "8" [] n = 9 -> "9"

\* '%02d' % n and '%04d' % n
Pad2(n) == <<DigitChar((n \div 10) % 10), DigitChar(n % 10)>>
Pad4(n) == Pad2(n \div 100) \o Pad2(n % 100)

DayNames ==
  <<<<"M","o","n">>, <<"T","u","e">>, <<"W","e","d">>, <<"T","h","u">>,
    <<"F","r","i">>, <<"S","a","t">>, <<"S","u","n">>>>

MonthAbbr ==
  <<<<"J","a","n">>, <<"F","e","b">>, <<"M","a","r">>, <<"A","p","r">>,
    <<"M","a","y">>, <<"J","u","n">>, <<"J","u","l">>, <<"A","u","g">>,
    <<"S","e","p">>, <<"O","c","t">>, <<"N","o","v">>, <<"D","e","c">>>>

\* email.utils.format_datetime of a naive datetime: the zone is -0000.
format_datetime(dt) ==
  DayNames[Weekday(dt.year, dt.month, dt.day) + 1] \o <<","," ">>
    \o Pad2(dt.day) \o <<" ">> \o MonthAbbr[dt.month] \o <<" ">> \o Pad4(dt.year)
    \o <<" ">> \o Pad2(dt.hour) \o <<":">> \o Pad2(dt.minute) \o <<":">> \o Pad2(dt.second)
    \* " -0000"
    \o <<" ","-","0","0","0","0">>

(***************************************************************************)
(* parse_date                                                              *)
(***************************************************************************)

AllDigits(s) == \A k \in 1..Len(s) : s[k] \in Digit

\* The regex \((\d{4}-\d{2}-\d{2})\) matched at position k.
IsoAt(s, k) ==
  /\ k + 11 <= Len(s)
  /\ s[k] = "("
  /\ AllDigits(SubSeq(s, k + 1, k + 4))
  /\ s[k + 5] = "-"
  /\ AllDigits(SubSeq(s, k + 6, k + 7))
  /\ s[k + 8] = "-"
  /\ AllDigits(SubSeq(s, k + 9, k + 10))
  /\ s[k + 11] = ")"

\* re.search: the leftmost match, 0 when there is none.
SearchIso(s) ==
  LET hits == {k \in 1..Len(s) : IsoAt(s, k)}
  IN  IF hits = {} THEN 0 ELSE CHOOSE k \in hits : \A j \in hits : k <= j

\* The alternation of the second regex, lower-cased (it is compiled with
\* re.IGNORECASE); strptime's %B reads the same names, in any case.
MonthNames ==
  \* "january"  "february"
  <<<<"j","a","n","u","a","r","y">>, <<"f","e","b","r","u","a","r","y">>,
    <<"m","a","r","c","h">>, <<"a","p","r","i","l">>,
    <<"m","a","y">>, <<"j","u","n","e">>, <<"j","u","l","y">>,
    \* "august"  "september"
    <<"a","u","g","u","s","t">>, <<"s","e","p","t","e","m","b","e","r">>,
    \* "october"  "november"
    <<"o","c","t","o","b","e","r">>, <<"n","o","v","e","m","b","e","r">>,
    \* "december"
    <<"d","e","c","e","m","b","e","r">>>>

\* The first position after k that holds no whitespace.
RECURSIVE SkipSpace(_, _)
SkipSpace(s, k) ==
  IF k <= Len(s) /\ s[k] \in Whitespace THEN SkipSpace(s, k + 1) ELSE k

\* Month m's name at position k, then \s+, then \d{4}.
MonthYearAt(s, k, m) ==
  LET n == Len(MonthNames[m])
      y == SkipSpace(s, k + n)
  IN  /\ k + n - 1 <= Len(s)
      /\ Lower(SubSeq(s, k, k + n - 1)) = MonthNames[m]
      /\ y > k + n
      /\ y + 3 <= Len(s)
      /\ AllDigits(SubSeq(s, y, y + 3))

\* re.search of the month-year regex: the leftmost match as <<position,
\* month, year>>, <<0, 0, 0>> when there is none.
SearchMonthYear(s) ==
  LET hits == {k \in 1..Len(s) : \E m \in 1..12 : MonthYearAt(s, k, m)}
  IN  IF hits = {} THEN <<0, 0, 0>>
      ELSE LET k == CHOOSE i \in hits : \A j \in hits : i <= j
               m == CHOOSE i \in 1..12 : MonthYearAt(s, k, i)
               y == SkipSpace(s, k + Len(MonthNames[m]))
           IN  <<k, m, ToInt(SubSeq(s, y, y + 3))>>

\* Lines 27-31: strptime(match_iso.group(1), '%Y-%m-%d') returned a datetime.
IsoParses(s) ==
  LET k == SearchIso(s)
  IN  /\ k > 0
      /\ ValidDate(ToInt(SubSeq(s, k + 1, k + 4)),
                   ToInt(SubSeq(s, k + 6, k + 7)),
                   ToInt(SubSeq(s, k + 9, k + 10)))

IsoDate(s) ==
  LET k == SearchIso(s)
  IN  DateTime(ToInt(SubSeq(s, k + 1, k + 4)), ToInt(SubSeq(s, k + 6, k + 7)),
               ToInt(SubSeq(s, k + 9, k + 10)), 0, 0, 0)

\* Lines 35-39: strptime(match_month_year.group(0), '%B %Y') returned a
\* datetime.
MonthYearParses(s) ==
  LET h == SearchMonthYear(s)
  IN  h[1] > 0 /\ ValidDate(h[3], h[2], 1)

MonthYearDate(s) ==
  LET h == SearchMonthYear(s)
  IN  DateTime(h[3], h[2], 1, 0, 0, 0)

\* parse_date with the two patterns tried in the other order.
parse_date_month_first(date_str, now) ==
  IF MonthYearParses(date_str) THEN MonthYearDate(date_str)
  ELSE IF IsoParses(date_str) THEN IsoDate(date_str)
  ELSE now

\* parse_date giving up at the first pattern that matches and does not parse.
parse_date_no_fallthrough(date_str, now) ==
  IF SearchIso(date_str) > 0
  THEN (IF IsoParses(date_str) THEN IsoDate(date_str) ELSE now)
  ELSE IF MonthYearParses(date_str) THEN MonthYearDate(date_str)
  ELSE now

\* parse_date(date_str), with datetime.now() as now.
parse_date(date_str, now) ==
  IF IsoParses(date_str) THEN IsoDate(date_str)
  ELSE IF MonthYearParses(date_str) THEN MonthYearDate(date_str)
  ELSE now

(***************************************************************************)
(* The page.  BeautifulSoup's parse is outside the program: a page is the   *)
(* sequence of its <a href> elements in document order, each with the text  *)
(* nodes the code reads around it.                                          *)
(*   href    the href attribute                                            *)
(*   text    the text nodes inside the anchor (none for an image link)      *)
(*   before  the text nodes of the parent that precede the anchor           *)
(*   sibling the text of the next sibling p, div or span: <<>> when there   *)
(*           is none, <<t>> when there is one                               *)
(*   after   the text nodes of the parent that follow                      *)
(***************************************************************************)

Anchor(href, text, before, sibling, after) ==
  [href |-> href, text |-> text, before |-> before, sibling |-> sibling,
   after |-> after]

\* The anchors a fetched page is built from.  Two hrefs resolve to the same
\* URL; one link has only whitespace for text; one URL has its year last, with
\* no slash after it; the texts around the links hold the date shapes
\* parse_date tells apart.
Anchors ==
  { \* <div>(2021-12-22) <a href="/2021/a">My Paper</a> - a study, June 2022.</div>
    \* "/2021/a"
    Anchor(<<"/","2","0","2","1","/","a">>,
           \* "My Paper"
           <<<<"M","y"," ","P","a","p","e","r">>>>,
           \* "(2021-12-22) "
           <<<<"(","2","0","2","1","-","1","2","-","2","2",")"," ">>>>,
           <<>>,
           \* " - a study, June 2022."
           <<<<" ","-"," ","a"," ","s","t","u","d","y",","," ","J","u","n","e",
               " ","2","0","2","2",".">>>>),
    \* <li><a href="2021/a"> \n<img></a></li>
    \* "2021/a"
    Anchor(<<"2","0","2","1","/","a">>,
           <<<<" ","\n">>>>,
           <<>>, <<>>, <<>>),
    \* <li>June 2022 (2021-12-22)<a href="/2021/a"> Paper <2> </a></li>
    \* "/2021/a"
    Anchor(<<"/","2","0","2","1","/","a">>,
           \* " Paper <2> "
           <<<<" ","P","a","p","e","r"," ","<","2",">"," ">>>>,
           \* "June 2022 (2021-12-22)"
           <<<<"J","u","n","e"," ","2","0","2","2"," ","(","2","0","2","1","-",
               "1","2","-","2","2",")">>>>,
           <<>>, <<>>),
    \* <li><a href="/a/2021">Old</a><span>December 2021</span></li>
    \* "/a/2021"
    Anchor(<<"/","a","/","2","0","2","1">>,
           <<<<"O","l","d">>>>,
           <<>>,
           \* "December 2021"
           <<<<"D","e","c","e","m","b","e","r"," ","2","0","2","1">>>>,
           <<>>),
    \* <li><a href="https://x.io/2022/b?u=1&v=2">R&D 'x'</a><p> December 2021 </p></li>
    \* "https://x.io/2022/b?u=1&v=2"
    Anchor(<<"h","t","t","p","s",":","/","/","x",".","i","o","/","2","0","2",
             "2","/","b","?","u","=","1","&","v","=","2">>,
           \* "R&D 'x'"
           <<<<"R","&","D"," ","'","x","'">>>>,
           <<>>,
           \* " December 2021 "
           <<<<" ","D","e","c","e","m","b","e","r"," ","2","0","2","1"," ">>>>,
           <<>>),
    \* <li>(2021-13-45)<a href="/2022/c">C</a>may \n2020</li>
    \* "/2022/c"
    Anchor(<<"/","2","0","2","2","/","c">>,
           <<<<"C">>>>,
           \* "(2021-13-45)"
           <<<<"(","2","0","2","1","-","1","3","-","4","5",")">>>>,
           <<>>,
           \* "may \n2020"
           <<<<"m","a","y"," ","\n","2","0","2","0">>>>),
    \* <li><a href="/2022/d">D</a><span> </span></li>
    \* "/2022/d"
    Anchor(<<"/","2","0","2","2","/","d">>,
           <<<<"D">>>>,
           <<>>,
           <<<<" ">>>>,
           <<>>),
    \* <li>(2021-02-30)<a href="/2023/e">E</a>December 0000</li>
    \* "/2023/e"
    Anchor(<<"/","2","0","2","3","/","e">>,
           <<<<"E">>>>,
           \* "(2021-02-30)"
           <<<<"(","2","0","2","1","-","0","2","-","3","0",")">>>>,
           <<>>,
           \* "December 0000"
           <<<<"D","e","c","e","m","b","e","r"," ","0","0","0","0">>>>) }

\* The most anchors on a page.
MaxAnchors == 3

\* The most seconds the wall clock advances during a run.
MaxTick == 1

Pages == UNION {[1..n -> Anchors] : n \in 0..MaxAnchors}

\* fetch_html's results: None, or response.text.  blank says that the text
\* is the empty string, which an HTTP 200 with an empty body gives.
None == [none |-> TRUE, blank |-> TRUE, anchors |-> <<>>]
Text(blank, anchors) == [none |-> FALSE, blank |-> blank, anchors |-> anchors]

\* The wall clock when the run starts, and datetime.now() t seconds later.
StartTime == DateTime(2026, 11, 6, 5, 2, 7)
Now(t) == [StartTime EXCEPT !.second = @ + t]

(***************************************************************************)
(* extract_articles                                                        *)
(***************************************************************************)

\* The year filter without the slash that closes the segment.
HasYearSegment_open(url) ==
  \E k \in 1..Len(url) :
    /\ k + 4 <= Len(url)
    /\ url[k] = "/"
    /\ url[k + 1] = "2"
    /\ url[k + 2] = "0"
    /\ url[k + 3] \in Digit
    /\ url[k + 4] \in Digit

\* Line 58: re.search(r'/20\d{2}/', absolute_url)
HasYearSegment(url) ==
  \E k \in 1..Len(url) :
    /\ k + 5 <= Len(url)
    /\ url[k] = "/"
    /\ url[k + 1] = "2"
    /\ url[k + 2] = "0"
    /\ url[k + 3] \in Digit
    /\ url[k + 4] \in Digit
    /\ url[k + 5] = "/"

\* The membership test that never finds the URL.
AlreadySeen_never(url, seen) == FALSE

\* Line 61: absolute_url in seen_links
AlreadySeen(url, seen) == url \in seen

\* The title test that lets every title through.
NoTitle_never(title) == FALSE

\* Line 66: not title
NoTitle(title) == title = <<>>

\* Line 74: a_tag.parent.get_text(" ", strip=True); an anchor of a parsed
\* page always has a parent.
ParentText(a) == GetText(a.before \o a.text \o a.sibling \o a.after)

\* Lines 77-84
Description(a, title, parent_text) ==
  LET description == IF a.sibling # <<>> THEN GetText(a.sibling) ELSE <<>>
  IN  IF description = <<>> /\ parent_text # <<>>
      THEN Strip(Replace(parent_text, title, <<>>))
      ELSE description

\* Line 87: the text parse_date is given.
DateText(parent_text, description) == parent_text \o <<" ">> \o description

\* Lines 92-97
Article(title, link, description, pubDate) ==
  [title |-> title, link |-> link, description |-> description,
   pubDate |-> pubDate]

\* Lines 65-97 for an anchor that passed the filters: the record it gives.
ArticleOf(a, now) ==
  LET title == GetText(a.text)
      parent_text == ParentText(a)
      description == Description(a, title, parent_text)
      pub_date == parse_date(DateText(parent_text, description), now)
  IN  Article(title, urljoin(base_url, a.href), description,
              format_datetime(pub_date))

\* The record put first instead of last.
AppendArticle_front(arts, rec) == <<rec>> \o arts

\* Line 92: articles.append(...)
AppendArticle(arts, rec) == Append(arts, rec)

\* The pure steps of the loop body tabulated over the anchors (and the clock),
\* so that each is evaluated once: line 55, line 65 and lines 74-97.
AbsoluteUrl == [a \in Anchors |-> urljoin(base_url, a.href)]
TitleOf == [a \in Anchors |-> GetText(a.text)]
DateTextOf ==
  [a \in Anchors |->
    DateText(ParentText(a), Description(a, GetText(a.text), ParentText(a)))]
ArticleAt == [a \in Anchors |-> [t \in 0..MaxTick |-> ArticleOf(a, Now(t))]]

(***************************************************************************)
(* generate_rss                                                            *)
(***************************************************************************)

\* html.escape with the ampersand replaced last instead of first.
escape_amp_last(s) ==
  LET s1 == Replace(s, <<"<">>, <<"&","l","t",";">>)
      s2 == Replace(s1, <<">">>, <<"&","g","t",";">>)
      \* "&quot;"
      s3 == Replace(s2, <<"\"">>, <<"&","q","u","o","t",";">>)
      \* "&#x27;"
      s4 == Replace(s3, <<"'">>, <<"&","#","x","2","7",";">>)
  IN  Replace(s4, <<"&">>, <<"&","a","m","p",";">>)

\* html.escape(s), quote=True
escape(s) ==
  LET s1 == Replace(s, <<"&">>, <<"&","a","m","p",";">>)
      s2 == Replace(s1, <<"<">>, <<"&","l","t",";">>)
      s3 == Replace(s2, <<">">>, <<"&","g","t",";">>)
      \* "&quot;"
      s4 == Replace(s3, <<"\"">>, <<"&","q","u","o","t",";">>)
  \* "&#x27;"
  IN  Replace(s4, <<"'">>, <<"&","#","x","2","7",";">>)

\* Lines 125-130: item_template.format(...)
ItemXml(article) ==
  \* " <item>\n  <title>"
  <<" ","<","i","t","e","m",">","\n"," "," ","<","t","i","t","l","e",
    ">">> \o escape(article.title)
    \* "</title>\n  <description>"
    \o <<"<","/","t","i","t","l","e",">","\n"," "," ","<","d","e","s","c",
         "r","i","p","t","i","o","n",">">> \o escape(article.description)
    \* "</description>\n  <link>"
    \o <<"<","/","d","e","s","c","r","i","p","t","i","o","n",">","\n"," ",
         " ","<","l","i","n","k",">">> \o article.link
    \* "</link>\n  <guid>"
    \o <<"<","/","l","i","n","k",">","\n"," "," ","<","g","u","i","d",">">> \o article.link
    \* "</guid>\n  <pubDate>"
    \o <<"<","/","g","u","i","d",">","\n"," "," ","<","p","u","b","D","a",
         "t","e",">">> \o article.pubDate
    \* "</pubDate>\n </item>"
    \o <<"<","/","p","u","b","D","a","t","e",">","\n"," ","<","/","i","t",
         "e","m",">">>

\* Lines 123-130: the loop that builds items_xml.
RECURSIVE ItemsXml(_)
ItemsXml(arts) ==
  IF arts = <<>> THEN <<>> ELSE ItemXml(Head(arts)) \o ItemsXml(Tail(arts))

RssHead ==
  \* "<?xml version=\"1.0\" encoding=\"UTF-8\" ?>\n<rss version=\"2.0\">\n<channel>\n"
  <<"<","?","x","m","l"," ","v","e","r","s","i","o","n","=","\"","1",
    ".","0","\""," ","e","n","c","o","d","i","n","g","=","\"","U","T",
    "F","-","8","\""," ","?",">","\n","<","r","s","s"," ","v","e","r",
    "s","i","o","n","=","\"","2",".","0","\"",">","\n","<","c","h","a",
    "n","n","e","l",">","\n">>
    \* " <title>Transformer Circuits</title>\n"
    \o <<" ","<","t","i","t","l","e",">","T","r","a","n","s","f","o","r",
         "m","e","r"," ","C","i","r","c","u","i","t","s","<","/","t","i",
         "t","l","e",">","\n">>
    \* " <description>Unofficial RSS feed for Transformer Circuits Thread "
    \o <<" ","<","d","e","s","c","r","i","p","t","i","o","n",">","U","n",
         "o","f","f","i","c","i","a","l"," ","R","S","S"," ","f","e","e",
         "d"," ","f","o","r"," ","T","r","a","n","s","f","o","r","m","e",
         "r"," ","C","i","r","c","u","i","t","s"," ","T","h","r","e","a",
         "d"," ">>
    \* "(transformer-circuits.pub)</description>\n"
    \o <<"(","t","r","a","n","s","f","o","r","m","e","r","-","c","i","r",
         "c","u","i","t","s",".","p","u","b",")","<","/","d","e","s","c",
         "r","i","p","t","i","o","n",">","\n">>
    \* " <link>https://transformer-circuits.pub/</link>\n"
    \o <<" ","<","l","i","n","k",">","h","t","t","p","s",":","/","/","t",
         "r","a","n","s","f","o","r","m","e","r","-","c","i","r","c","u",
         "i","t","s",".","p","u","b","/","<","/","l","i","n","k",">","\n">>

\* Lines 132-135: rss_template.format(build_date=..., items=items_xml)
generate_rss(arts, now) ==
  RssHead
    \* " <lastBuildDate>"
    \o <<" ","<","l","a","s","t","B","u","i","l","d","D","a","t","e",">">>
    \o format_datetime(now)
    \* "</lastBuildDate>\n"
    \o <<"<","/","l","a","s","t","B","u","i","l","d","D","a","t","e",">",
         "\n">>
    \* " <pubDate>"
    \o <<" ","<","p","u","b","D","a","t","e",">">>
    \o format_datetime(now)
    \* "</pubDate>\n"
    \o <<"<","/","p","u","b","D","a","t","e",">","\n">>
    \o ItemsXml(arts)
    \* "\n</channel>\n</rss>"
    \o <<"\n","<","/","c","h","a","n","n","e","l",">","\n","<","/","r","s",
         "s",">">>

(***************************************************************************)
(* One run of main.                                                        *)
(***************************************************************************)

VARIABLES
  pc,            \* where main is
  clock,         \* seconds since the run started
  html_content,  \* main's html_content
  idx,           \* extract_articles: the position of a_tag in find_all's list
  seen_links,    \* extract_articles: seen_links
  articles,      \* extract_articles: articles
  rss_feed,      \* main's rss_feed
  stdout,        \* what was printed to standard output
  stderr,        \* what was printed to the error stream
  calls          \* the calls main made, in order

vars ==
  <<pc, clock, html_content, idx, seen_links, articles, rss_feed, stdout,
    stderr, calls>>

Init ==
  /\ pc = "fetch"
  /\ clock = 0
  /\ html_content = None
  /\ idx = 1
  /\ seen_links = {}
  /\ articles = <<>>
  /\ rss_feed = <<>>
  /\ stdout = <<>>
  /\ stderr = <<>>
  /\ calls = <<>>

\* Lines 10-21 and 139: requests.get and raise_for_status either give the
\* response text or raise a RequestException, which is reported and turned
\* into None.
fetch_html ==
  /\ pc = "fetch"
  /\ \/ /\ \E page \in Pages : html_content' = Text(FALSE, page)
        /\ stderr' = stderr
     \/ /\ html_content' = Text(TRUE, <<>>)
        /\ stderr' = stderr
     \/ /\ html_content' = None
        /\ stderr' = Append(stderr, "Error fetching URL")
  /\ calls' = Append(calls, "fetch_html")
  /\ pc' = "if"
  /\ UNCHANGED <<clock, idx, seen_links, articles, rss_feed, stdout>>

\* Line 141: the truth value of html_content.
Truthy(h) == ~h.none /\ ~h.blank

\* Lines 141-142 and 45-47: the test, and the entry into extract_articles.
main_if ==
  /\ pc = "if"
  /\ IF Truthy(html_content)
     THEN /\ pc' = "extract"
          /\ calls' = Append(calls, "extract_articles")
     ELSE /\ pc' = "done"
          /\ calls' = calls
  /\ idx' = 1
  /\ seen_links' = {}
  /\ articles' = <<>>
  /\ UNCHANGED <<clock, html_content, rss_feed, stdout, stderr>>

\* Lines 53-97: one pass of the loop body, for the anchor at idx.
extract_step ==
  /\ pc = "extract"
  /\ idx <= Len(html_content.anchors)
  /\ LET a_tag == html_content.anchors[idx]
         absolute_url == AbsoluteUrl[a_tag]
     IN  IF ~HasYearSegment(absolute_url)
         THEN UNCHANGED <<seen_links, articles>>
         ELSE IF AlreadySeen(absolute_url, seen_links)
         THEN UNCHANGED <<seen_links, articles>>
         ELSE /\ seen_links' = seen_links \cup {absolute_url}
              /\ IF NoTitle(TitleOf[a_tag])
                 THEN articles' = articles
                 ELSE articles' = AppendArticle(articles, ArticleAt[a_tag][clock])
  /\ idx' = idx + 1
  /\ UNCHANGED <<pc, clock, html_content, rss_feed, stdout, stderr, calls>>

\* Lines 99 and 143: extract_articles returns and generate_rss runs.
main_generate ==
  /\ pc = "extract"
  /\ idx > Len(html_content.anchors)
  /\ rss_feed' = generate_rss(articles, Now(clock))
  /\ calls' = Append(calls, "generate_rss")
  /\ pc' = "print"
  /\ UNCHANGED <<clock, html_content, idx, seen_links, articles, stdout, stderr>>

\* Line 144: print(rss_feed)
main_print ==
  /\ pc = "print"
  /\ stdout' = Append(stdout, rss_feed)
  /\ calls' = Append(calls, "print")
  /\ pc' = "done"
  /\ UNCHANGED <<clock, html_content, idx, seen_links, articles, rss_feed, stderr>>

\* The wall clock advances while extract_articles runs; datetime.now() is
\* read at lines 41 and 133.
Tick ==
  /\ pc = "extract"
  /\ clock < MaxTick
  /\ clock' = clock + 1
  /\ UNCHANGED <<pc, html_content, idx, seen_links, articles, rss_feed, stdout,
                 stderr, calls>>

Next ==
  \/ fetch_html
  \/ main_if
  \/ extract_step
  \/ main_generate
  \/ main_print
  \/ Tick

Spec == Init /\ [][Next]_vars

(***************************************************************************)
(* generate_rss on its own: main from the return of extract_articles on,    *)
(* for any sequence of records.                                            *)
(***************************************************************************)

\* The most records in a sequence given to generate_rss.
MaxItems == 3

\* The records of the anchors, whatever their URL and title, and one with
\* every character html.escape replaces.
Records ==
  {ArticleAt[a][0] : a \in Anchors}
    \* "\"Q\" & <A>"
    \cup {Article(<<"\"","Q","\""," ","&"," ","<","A",">">>,
                  \* "https://transformer-circuits.pub/2020/q"
                  <<"h","t","t","p","s",":","/","/","t","r","a","n","s","f","o","r",
                    "m","e","r","-","c","i","r","c","u","i","t","s",".","p","u","b",
                    "/","2","0","2","0","/","q">>,
                  \* "x > y && 'z'"
                  <<"x"," ",">"," ","y"," ","&","&"," ","'","z","'">>,
                  \* "Sat, 01 Jan 2022 00:00:00 -0000"
                  <<"S","a","t",","," ","0","1"," ","J","a","n"," ","2","0","2","2",
                    " ","0","0",":","0","0",":","0","0"," ","-","0","0","0","0">>)}

InitFeed ==
  /\ pc = "extract"
  /\ clock = 0
  /\ html_content = Text(FALSE, <<>>)
  /\ idx = 1
  /\ seen_links = {}
  /\ articles \in UNION {[1..n -> Records] : n \in 0..MaxItems}
  /\ rss_feed = <<>>
  /\ stdout = <<>>
  /\ stderr = <<>>
  /\ calls = <<"fetch_html", "extract_articles">>

NextFeed ==
  \/ main_generate
  \/ main_print

SpecFeed == InitFeed /\ [][NextFeed]_vars

(***************************************************************************)
(* What the properties below read.                                         *)
(***************************************************************************)

\* The anchors of the page and the positions the loop has passed.
PageAnchors == html_content.anchors
Processed == 1..(idx - 1)

\* The first anchor of the page with the URL of record k.
Producer(k) ==
  LET j == CHOOSE i \in Processed :
             /\ AbsoluteUrl[PageAnchors[i]] = articles[k].link
             /\ \A h \in 1..(i - 1) :
                  AbsoluteUrl[PageAnchors[h]] # articles[k].link
  IN  PageAnchors[j]

\* The text inside an anchor with the whitespace at its ends removed.
StrippedText == [a \in Anchors |-> Strip(Concat(a.text))]

\* A URL holds a segment /20DD/.
YearSegments == {<<"/", "2", "0", d1, d2, "/">> : d1 \in Digit, d2 \in Digit}
IsArticleUrl(url) == \E k \in 1..(Len(url) - 5) : SubSeq(url, k, k + 5) \in YearSegments

\* The formatted values datetime.now() can have had so far in the run.
NowStamps == {format_datetime(Now(t)) : t \in 0..clock}

\* How the two date patterns stand in the text of an anchor: the leftmost
\* match of each, read as numbers.
\*   iso    "none", "date" (a real date) or "bad" (no date of the calendar)
\*   month  "none", "date" or "bad"
DateShape(text) ==
  LET isoHits == {k \in 1..Len(text) : IsoAt(text, k)}
      i == CHOOSE k \in isoHits : \A j \in isoHits : k <= j
      iy == ToInt(SubSeq(text, i + 1, i + 4))
      im == ToInt(SubSeq(text, i + 6, i + 7))
      id == ToInt(SubSeq(text, i + 9, i + 10))
      monHits == {k \in 1..Len(text) : \E m \in 1..12 : MonthYearAt(text, k, m)}
      p == CHOOSE k \in monHits : \A j \in monHits : k <= j
      pm == CHOOSE m \in 1..12 : MonthYearAt(text, p, m)
      py == ToInt(SubSeq(text, SkipSpace(text, p + Len(MonthNames[pm])),
                         SkipSpace(text, p + Len(MonthNames[pm])) + 3))
  IN  [iso |-> IF isoHits = {} THEN "none"
               ELSE IF ValidDate(iy, im, id) THEN "date" ELSE "bad",
       isoDate |-> IF isoHits # {} /\ ValidDate(iy, im, id)
                   THEN DateTime(iy, im, id, 0, 0, 0) ELSE StartTime,
       month |-> IF monHits = {} THEN "none"
                 ELSE IF py >= 1 THEN "date" ELSE "bad",
       monthDate |-> IF monHits # {} /\ py >= 1
                     THEN DateTime(py, pm, 1, 0, 0, 0) ELSE StartTime]

ShapeOf == [a \in Anchors |-> DateShape(DateTextOf[a])]

\* The positions of pat in s.
Occurrences(s, pat) == {k \in 1..Len(s) : StartsAt(s, k, pat)}

\* The k-th least of a set of positions.
Nth(positions, k) ==
  CHOOSE p \in positions : Cardinality({q \in positions : q < p}) = k - 1

\* The k-th <item> ... </item> of a feed, given the positions of its <item>
\* and </item> tags.
Item(feed, starts, ends, k) == SubSeq(feed, Nth(starts, k), Nth(ends, k) - 1)

\* The text of the element <tag> of an item.
Field(item, tag) ==
  LET open == <<"<">> \o tag \o <<">">>
      close == <<"<","/">> \o tag \o <<">">>
      o == Find(item, open) + Len(open)
      c == Find(item, close)
  IN  SubSeq(item, o, c - 1)

\* The inverse of the five replacements of html.escape.
Unescape(s) ==
  LET s1 == Replace(s, <<"&","l","t",";">>, <<"<">>)
      s2 == Replace(s1, <<"&","g","t",";">>, <<">">>)
      \* "&quot;"
      s3 == Replace(s2, <<"&","q","u","o","t",";">>, <<"\"">>)
      \* "&#x27;"
      s4 == Replace(s3, <<"&","#","x","2","7",";">>, <<"'">>)
  IN  Replace(s4, <<"&","a","m","p",";">>, <<"&">>)

Entities ==
  {<<"&","a","m","p",";">>, <<"&","l","t",";">>, <<"&","g","t",";">>,
   \* "&quot;"  "&#x27;"
   <<"&","q","u","o","t",";">>, <<"&","#","x","2","7",";">>}

\* The elements of an item.
ItemTags ==
  \* "description"
  {<<"t","i","t","l","e">>, <<"d","e","s","c","r","i","p","t","i","o","n">>,
   \* "pubDate"
   <<"l","i","n","k">>, <<"g","u","i","d">>, <<"p","u","b","D","a","t","e">>}

\* No raw <, > or &: every & starts one of the five entities.
Escaped(s) ==
  \A k \in 1..Len(s) :
    /\ s[k] \notin {"<", ">"}
    /\ s[k] = "&" => \E e \in Entities : StartsAt(s, k, e)

\* XML character data: no raw <, and every & starts a reference &name; or
\* &#number;.
ReferenceAt(s, k) ==
  \E j \in (k + 2)..Len(s) :
    /\ s[j] = ";"
    /\ \A h \in (k + 1)..(j - 1) : s[h] \in UpperCase \cup LowerCase \cup Digit \cup {"#"}

CharData(s) ==
  \A k \in 1..Len(s) :
    /\ s[k] # "<"
    /\ s[k] = "&" => ReferenceAt(s, k)

(***************************************************************************)
(* The properties.                                                         *)
(***************************************************************************)

\* C1: the records extract_articles has collected have pairwise distinct
\* links, after every pass of the loop.
C1_LinksUnique ==
  \A i, j \in 1..Len(articles) : i # j => articles[i].link # articles[j].link

\* Two anchors with text and the same article URL have been processed, and a
\* record came out.
C1_Witness ==
  /\ pc = "done"
  /\ Len(articles) >= 1
  /\ \E i, j \in Processed :
       /\ i < j
       /\ AbsoluteUrl[PageAnchors[i]] = AbsoluteUrl[PageAnchors[j]]
       /\ PageAnchors[i].href # PageAnchors[j].href
       /\ HasYearSegment(AbsoluteUrl[PageAnchors[i]])
       /\ TitleOf[PageAnchors[j]] # <<>>

\* C2: no collected record has an empty title, and no anchor whose text is
\* empty once stripped has given a record: every record bears the stripped,
\* non-empty text of the first anchor with its URL.
C2_NoEmptyTitle ==
  \A k \in 1..Len(articles) :
    /\ articles[k].title # <<>>
    /\ \E j \in Processed :
         /\ AbsoluteUrl[PageAnchors[j]] = articles[k].link
         /\ StrippedText[PageAnchors[j]] = articles[k].title
         /\ \E c \in 1..Len(articles[k].title) : articles[k].title[c] \notin Whitespace

\* An article link with only whitespace for text has been processed on a page
\* that gave a record.
C2_Witness ==
  /\ pc = "done"
  /\ Len(articles) >= 1
  /\ \E j \in Processed :
       /\ HasYearSegment(AbsoluteUrl[PageAnchors[j]])
       /\ PageAnchors[j].text # <<>>
       /\ TitleOf[PageAnchors[j]] = <<>>

\* C3: every collected record's link holds a segment /20DD/, and no anchor
\* whose resolved URL holds none has a record.
C3_YearFilter ==
  /\ \A k \in 1..Len(articles) : IsArticleUrl(articles[k].link)
  /\ \A j \in Processed :
       ~IsArticleUrl(AbsoluteUrl[PageAnchors[j]])
         => \A k \in 1..Len(articles) :
              articles[k].link # AbsoluteUrl[PageAnchors[j]]

\* An anchor with text whose URL has a year but no segment /20DD/ has been
\* processed on a page that gave a record.
C3_Witness ==
  /\ pc = "done"
  /\ Len(articles) >= 1
  /\ \E j \in Processed :
       /\ ~IsArticleUrl(AbsoluteUrl[PageAnchors[j]])
       /\ Find(AbsoluteUrl[PageAnchors[j]], <<"/","2","0","2","1">>) > 0
       /\ TitleOf[PageAnchors[j]] # <<>>

\* C4: a finished run made one fetch and ended in one of two ways: the fetch
\* succeeded, extract_articles and generate_rss ran once each in that order
\* and one document was printed; or the fetch failed, nothing was printed and
\* one diagnostic line was written.
C4_TwoOutcomes ==
  pc = "done" =>
    \/ /\ ~html_content.none
       /\ calls = <<"fetch_html", "extract_articles", "generate_rss", "print">>
       /\ Len(stdout) = 1
       /\ stderr = <<>>
    \/ /\ html_content.none
       /\ calls = <<"fetch_html">>
       /\ stdout = <<>>
       /\ Len(stderr) = 1

\* C5: for any sequence of records, whether or not extract_articles can give
\* it, the feed generate_rss returns holds one <item> per record, in the
\* order of the records, each with the record's link (also as guid) and
\* pubDate unchanged and its title and description with <, & and > turned
\* into entities.
C5_ItemsRoundTrip ==
  pc = "print" =>
    \* "<item>"
    LET starts == Occurrences(rss_feed, <<"<","i","t","e","m",">">>)
        \* "</item>"
        ends == Occurrences(rss_feed, <<"<","/","i","t","e","m",">">>)
    IN  /\ Cardinality(starts) = Len(articles)
        /\ Cardinality(ends) = Len(articles)
        /\ \A k \in 1..Len(articles) :
             LET item == Item(rss_feed, starts, ends, k)
                 title == Field(item, <<"t","i","t","l","e">>)
                 \* "description"
                 description == Field(item, <<"d","e","s","c","r","i","p","t","i","o","n">>)
             IN  /\ Field(item, <<"l","i","n","k">>) = articles[k].link
                 /\ Field(item, <<"g","u","i","d">>) = articles[k].link
                 \* "pubDate"
                 /\ Field(item, <<"p","u","b","D","a","t","e">>) = articles[k].pubDate
                 /\ Escaped(title)
                 /\ Unescape(title) = articles[k].title
                 /\ Escaped(description)
                 /\ Unescape(description) = articles[k].description

\* A feed of three records was built, two of them the same, with <, > and &
\* in the titles and descriptions.
C5_Witness ==
  /\ pc = "print"
  /\ Len(articles) = 3
  /\ articles[1] = articles[3]
  /\ articles[1] # articles[2]
  /\ \E k \in 1..Len(articles) : Find(articles[k].title, <<"<">>) > 0
  /\ \E k \in 1..Len(articles) : Find(articles[k].title, <<"&">>) > 0
  /\ \E k \in 1..Len(articles) : Find(articles[k].description, <<">">>) > 0

\* C6: the date of a record comes from the text "parent text, space,
\* description".  When the leftmost parenthesised YYYY-MM-DD in it is a real
\* date, the record's date is that date at 00:00:00, whether or not a month
\* and year also occur; when there is no parenthesised YYYY-MM-DD and the
\* leftmost month name and year is a real month, it is the first day of that
\* month at 00:00:00; when neither pattern occurs it is the current moment.
\* A text holding (2021-12-22) gives Wed, 22 Dec 2021 00:00:00 and one holding
\* December 2021 and no parenthesised date gives Wed, 01 Dec 2021 00:00:00.
C6_DatePatterns ==
  \A k \in 1..Len(articles) :
    LET a == Producer(k)
        text == DateTextOf[a]
        shape == ShapeOf[a]
        date == articles[k].pubDate
    IN  /\ shape.iso = "date" => date = format_datetime(shape.isoDate)
        /\ shape.iso = "none" /\ shape.month = "date"
             => date = format_datetime(shape.monthDate)
        /\ shape.iso = "none" /\ shape.month = "none" => date \in NowStamps
        \* "(2021-12-22)"
        /\ Find(text, <<"(","2","0","2","1","-","1","2","-","2","2",")">>) > 0
             \* "Wed, 22 Dec 2021 00:00:00 -0000"
             => date = <<"W","e","d",","," ","2","2"," ","D","e","c"," ","2","0","2","1",
                         " ","0","0",":","0","0",":","0","0"," ","-","0","0","0","0">>
        \* "December 2021"
        /\ (/\ Find(text, <<"D","e","c","e","m","b","e","r"," ","2","0","2","1">>) > 0
            /\ Find(text, <<"(">>) = 0)
             \* "Wed, 01 Dec 2021 00:00:00 -0000"
             => date = <<"W","e","d",","," ","0","1"," ","D","e","c"," ","2","0","2","1",
                         " ","0","0",":","0","0",":","0","0"," ","-","0","0","0","0">>

\* Records of all three kinds: one dated by a parenthesised date with a month
\* and year before it, one dated by a month and year, one dated now.
C6_Witness ==
  /\ pc = "done"
  /\ \E k \in 1..Len(articles) :
       /\ ShapeOf[Producer(k)].iso = "date"
       /\ ShapeOf[Producer(k)].month = "date"
       /\ Find(DateTextOf[Producer(k)], <<"J","u","n","e">>)
            < Find(DateTextOf[Producer(k)], <<"(">>)
  /\ \E k \in 1..Len(articles) :
       ShapeOf[Producer(k)].iso = "none" /\ ShapeOf[Producer(k)].month = "date"
  /\ \E k \in 1..Len(articles) :
       ShapeOf[Producer(k)].iso = "none" /\ ShapeOf[Producer(k)].month = "none"

\* C7 as stated: when a pattern matches and the match is no real date, the
\* record's date is the current moment and no other date.
C7_FailureGivesNow ==
  \A k \in 1..Len(articles) :
    LET shape == ShapeOf[Producer(k)]
    IN  shape.iso = "bad" \/ (shape.iso = "none" /\ shape.month = "bad")
          => articles[k].pubDate \in NowStamps

\* C7 amended: when the parenthesised YYYY-MM-DD is no real date the month
\* and year pattern is still tried, and gives the date if it matches a real
\* month; the date is the current moment only when that pattern too finds
\* nothing or no real month.  No error is raised: the anchor still gives its
\* record.
C7_FailureFallsThrough ==
  /\ \A k \in 1..Len(articles) :
       LET shape == ShapeOf[Producer(k)]
           date == articles[k].pubDate
       IN  /\ shape.iso = "bad" /\ shape.month = "date"
                => date = format_datetime(shape.monthDate)
           /\ shape.iso = "bad" /\ shape.month # "date" => date \in NowStamps
           /\ shape.iso = "none" /\ shape.month = "bad" => date \in NowStamps
  /\ \A j \in Processed :
       LET a == PageAnchors[j]
       IN  /\ ShapeOf[a].iso = "bad" \/ ShapeOf[a].month = "bad"
           /\ IsArticleUrl(AbsoluteUrl[a])
           /\ TitleOf[a] # <<>>
           /\ \A h \in 1..(j - 1) : AbsoluteUrl[PageAnchors[h]] # AbsoluteUrl[a]
           => \E k \in 1..Len(articles) :
                articles[k].link = AbsoluteUrl[a] /\ articles[k].title = TitleOf[a]

\* Two records whose parenthesised date is no real date: one with a month and
\* year after it, one with a month and the year 0000.
C7_Witness ==
  /\ pc = "done"
  /\ \E k \in 1..Len(articles) :
       ShapeOf[Producer(k)].iso = "bad" /\ ShapeOf[Producer(k)].month = "date"
  /\ \E k \in 1..Len(articles) :
       ShapeOf[Producer(k)].iso = "bad" /\ ShapeOf[Producer(k)].month = "bad"

\* C8: in the feed built from extracted records, the text of every title,
\* description, link, guid and pubDate of every item holds no raw < and no &
\* that does not start a reference.
C8_WellFormed ==
  pc = "print" =>
    \* "<item>"
    LET starts == Occurrences(rss_feed, <<"<","i","t","e","m",">">>)
        \* "</item>"
        ends == Occurrences(rss_feed, <<"<","/","i","t","e","m",">">>)
    IN  \A k \in 1..Len(articles) :
          \A tag \in ItemTags :
            CharData(Field(Item(rss_feed, starts, ends, k), tag))

\* C9: every processed anchor that passes the year filter and has a title has
\* a record with its URL.
C9_EveryTitledUrlEmitted ==
  \A j \in Processed :
    IsArticleUrl(AbsoluteUrl[PageAnchors[j]]) /\ TitleOf[PageAnchors[j]] # <<>>
      => \E k \in 1..Len(articles) : articles[k].link = AbsoluteUrl[PageAnchors[j]]

\* C10: the records are in document order and each comes from the first
\* anchor of the page with its URL: record k bears that anchor's text, and
\* the first anchors of two records stand in the order of the records.
C10_DocumentOrder ==
  LET First(k) ==
        {j \in Processed :
           /\ AbsoluteUrl[PageAnchors[j]] = articles[k].link
           /\ \A h \in 1..(j - 1) : AbsoluteUrl[PageAnchors[h]] # articles[k].link}
  IN  /\ \A k \in 1..Len(articles) :
           \E j \in First(k) : articles[k].title = TitleOf[PageAnchors[j]]
      /\ \A k, l \in 1..Len(articles) :
           k < l => \A i \in First(k) : \A j \in First(l) : i < j

\* Two records from a page of three anchors, the last a second link with text
\* to the URL of the first.
C10_Witness ==
  /\ pc = "done"
  /\ Len(articles) = 2
  /\ \E i, j \in Processed :
       /\ i < j
       /\ AbsoluteUrl[PageAnchors[i]] = AbsoluteUrl[PageAnchors[j]]
       /\ TitleOf[PageAnchors[i]] # <<>>
       /\ TitleOf[PageAnchors[j]] # <<>>
       /\ TitleOf[PageAnchors[i]] # TitleOf[PageAnchors[j]]

=============================================================================
